---- MODULE Spec2Model ----
(***************************************************************************)
(* Model of SEOAnalyzer.analyzeSEO (src/script.js, second class            *)
(* definition, lines 674-907): the rule evaluator that maps the tag record *)
(* produced by parseMetaTags to a score, three counters, an ordered list   *)
(* of findings and four category tallies.                                  *)
(*                                                                         *)
(* Strings are TLA+ strings: truthiness is (s # ""), .length is Len(s).    *)
(* The evaluator runs its eight rules one after the other; pc is the       *)
(* position inside the function body.                                      *)
(***************************************************************************)
EXTENDS Integers, Sequences, FiniteSets, TLC

(***************************************************************************)
(* Program constants                                                       *)
(***************************************************************************)
TitleMinLen == 30
TitleMaxLen == 60
DescMinLen == 120
DescMaxLen == 160
ScoreCeiling == 100

(***************************************************************************)
(* Bounds of the input space                                               *)
(***************************************************************************)
\* lengths are drawn from 0, 1..Margin and within Margin of each threshold
Margin == 1
\* largest number of parsed JSON-LD blocks in a tag record
MaxBlocks == 2
\* largest number of successive evaluations of the same tag record
MaxCalls == 2
\* largest number of JSON-LD script elements in a fetched document
MaxScripts == 3
\* largest number of analyzeWebsite invocations on one page
MaxAnalyses == 2

VARIABLES
    \* analyzeSEO: its argument, position, locals and return value
    metaTags, pc, analysis, score, passed, warnings, errors,
    categoryScores, result,
    \* the completed evaluations, oldest first: argument and report
    calls,
    \* the fetched document handed to parseMetaTags
    doc,
    \* the page: the elements the script reads and writes
    dom,
    \* the analyzeWebsite invocations, in the order they were started
    tasks

vars == <<metaTags, pc, analysis, score, passed, warnings, errors,
          categoryScores, result, calls, doc, dom, tasks>>

\* the state outside analyzeSEO
pageVars == <<doc, dom, tasks>>

(***************************************************************************)
(* Inputs                                                                  *)
(***************************************************************************)
RECURSIVE Repeat(_, _)
\* a string of n copies of the one-character string c
Repeat(c, n) ==
    IF n = 0 THEN ""
    ELSE LET half == Repeat(c, n \div 2)
         IN  IF n % 2 = 0 THEN half \o half ELSE half \o half \o c

Around(n) == (n - Margin)..(n + Margin)

TitleLens == {0} \cup (1..Margin) \cup Around(TitleMinLen) \cup Around(TitleMaxLen)
DescLens == {0} \cup (1..Margin) \cup Around(DescMinLen) \cup Around(DescMaxLen)

Titles == {Repeat("A", n) : n \in TitleLens}
Descriptions == {Repeat("B", n) : n \in DescLens}

\* parsed JSON-LD values; the evaluator only reads the length of the array
JsonValues == {"{}"}
StructuredDatas == UNION {[1..n -> JsonValues] : n \in 0..MaxBlocks}

\* the fields of the record built by parseMetaTags that analyzeSEO reads
TagRecords ==
    [title : Titles,
     description : Descriptions,
     ogTitle : {"", "x"},
     ogDescription : {"", "y"},
     twitterCard : {"", "summary"},
     canonical : {"", "https://e.com"},
     viewport : {"", "w"},
     language : {"", "en"},
     structuredData : StructuredDatas]

(***************************************************************************)
(* Evaluator: local state at function entry                                *)
(***************************************************************************)
\* variant: contentQuality is out of the 5 points its one rule can earn
InitCategoryScores_ContentQualityMaxFive ==
    [basicSeo       |-> [score |-> 0, maxScore |-> 30, items |-> <<>>],
     socialMedia    |-> [score |-> 0, maxScore |-> 25, items |-> <<>>],
     technicalSeo   |-> [score |-> 0, maxScore |-> 30, items |-> <<>>],
     contentQuality |-> [score |-> 0, maxScore |-> 5, items |-> <<>>]]

InitCategoryScores ==
    [basicSeo       |-> [score |-> 0, maxScore |-> 30, items |-> <<>>],
     socialMedia    |-> [score |-> 0, maxScore |-> 25, items |-> <<>>],
     technicalSeo   |-> [score |-> 0, maxScore |-> 30, items |-> <<>>],
     contentQuality |-> [score |-> 0, maxScore |-> 15, items |-> <<>>]]

Categories == {"basicSeo", "socialMedia", "technicalSeo", "contentQuality"}

\* the statements of one branch of a rule: the item pushed, the category it
\* is pushed to, the points added to the category and to the score, and the
\* counter incremented
Branch(type, title, description, category, catPoints, points, counter) ==
    [type |-> type, title |-> title, description |-> description,
     category |-> category, catPoints |-> catPoints, points |-> points,
     counter |-> counter]

\* a path through a rule that executes no branch body
NoBranch == [counter |-> "none"]

Item(b) == [type |-> b.type, title |-> b.title, description |-> b.description]

(***************************************************************************)
(* The eight rules: which branch body each rule executes                   *)
(***************************************************************************)
\* variant: the warning branch is guarded by length > 60
TitleBranch_NoShortWarning(tags) ==
    IF tags.title # ""
    THEN IF Len(tags.title) >= TitleMinLen /\ Len(tags.title) <= TitleMaxLen
         THEN Branch("passed", "Title Tag Length",
                     "Perfect! Title is " \o ToString(Len(tags.title))
                         \o " characters (30-60 recommended).",
                     "basicSeo", 15, 15, "passed")
         ELSE IF Len(tags.title) > TitleMaxLen
         THEN Branch("warning", "Title Tag Length",
                     "Title is " \o ToString(Len(tags.title))
                         \o " characters. Recommended: 30-60 characters.",
                     "basicSeo", 8, 8, "warnings")
         ELSE NoBranch
    ELSE Branch("error", "Missing Title Tag",
                "Title tag is missing. This is crucial for SEO.",
                "basicSeo", 0, 0, "errors")

\* variant: the lower title threshold is exclusive
TitleBranch_ExclusiveMin(tags) ==
    IF tags.title # ""
    THEN IF Len(tags.title) > TitleMinLen /\ Len(tags.title) <= TitleMaxLen
         THEN Branch("passed", "Title Tag Length",
                     "Perfect! Title is " \o ToString(Len(tags.title))
                         \o " characters (30-60 recommended).",
                     "basicSeo", 15, 15, "passed")
         ELSE IF Len(tags.title) > 0
         THEN Branch("warning", "Title Tag Length",
                     "Title is " \o ToString(Len(tags.title))
                         \o " characters. Recommended: 30-60 characters.",
                     "basicSeo", 8, 8, "warnings")
         ELSE NoBranch
    ELSE Branch("error", "Missing Title Tag",
                "Title tag is missing. This is crucial for SEO.",
                "basicSeo", 0, 0, "errors")

TitleBranch(tags) ==
    IF tags.title # ""
    THEN IF Len(tags.title) >= TitleMinLen /\ Len(tags.title) <= TitleMaxLen
         THEN Branch("passed", "Title Tag Length",
                     "Perfect! Title is " \o ToString(Len(tags.title))
                         \o " characters (30-60 recommended).",
                     "basicSeo", 15, 15, "passed")
         ELSE IF Len(tags.title) > 0
         THEN Branch("warning", "Title Tag Length",
                     "Title is " \o ToString(Len(tags.title))
                         \o " characters. Recommended: 30-60 characters.",
                     "basicSeo", 8, 8, "warnings")
         ELSE NoBranch
    ELSE Branch("error", "Missing Title Tag",
                "Title tag is missing. This is crucial for SEO.",
                "basicSeo", 0, 0, "errors")

\* variant: the upper description threshold is exclusive
DescriptionBranch_ExclusiveMax(tags) ==
    IF tags.description # ""
    THEN IF Len(tags.description) >= DescMinLen /\ Len(tags.description) < DescMaxLen
         THEN Branch("passed", "Meta Description Length",
                     "Perfect! Description is " \o ToString(Len(tags.description))
                         \o " characters (120-160 recommended).",
                     "basicSeo", 15, 15, "passed")
         ELSE IF Len(tags.description) > 0
         THEN Branch("warning", "Meta Description Length",
                     "Description is " \o ToString(Len(tags.description))
                         \o " characters. Recommended: 120-160 characters.",
                     "basicSeo", 8, 8, "warnings")
         ELSE NoBranch
    ELSE Branch("error", "Missing Meta Description",
                "Meta description is missing. This affects click-through rates.",
                "basicSeo", 0, 0, "errors")

\* variant: a missing description is a warning
DescriptionBranch_MissingIsWarning(tags) ==
    IF tags.description # ""
    THEN IF Len(tags.description) >= DescMinLen /\ Len(tags.description) <= DescMaxLen
         THEN Branch("passed", "Meta Description Length",
                     "Perfect! Description is " \o ToString(Len(tags.description))
                         \o " characters (120-160 recommended).",
                     "basicSeo", 15, 15, "passed")
         ELSE IF Len(tags.description) > 0
         THEN Branch("warning", "Meta Description Length",
                     "Description is " \o ToString(Len(tags.description))
                         \o " characters. Recommended: 120-160 characters.",
                     "basicSeo", 8, 8, "warnings")
         ELSE NoBranch
    ELSE Branch("warning", "Missing Meta Description",
                "Meta description is missing. This affects click-through rates.",
                "basicSeo", 0, 0, "warnings")

DescriptionBranch(tags) ==
    IF tags.description # ""
    THEN IF Len(tags.description) >= DescMinLen /\ Len(tags.description) <= DescMaxLen
         THEN Branch("passed", "Meta Description Length",
                     "Perfect! Description is " \o ToString(Len(tags.description))
                         \o " characters (120-160 recommended).",
                     "basicSeo", 15, 15, "passed")
         ELSE IF Len(tags.description) > 0
         THEN Branch("warning", "Meta Description Length",
                     "Description is " \o ToString(Len(tags.description))
                         \o " characters. Recommended: 120-160 characters.",
                     "basicSeo", 8, 8, "warnings")
         ELSE NoBranch
    ELSE Branch("error", "Missing Meta Description",
                "Meta description is missing. This affects click-through rates.",
                "basicSeo", 0, 0, "errors")

\* variant: Open Graph adds its category points to the score
OpenGraphBranch_Unified(tags) ==
    IF tags.ogTitle # "" /\ tags.ogDescription # ""
    THEN Branch("passed", "Open Graph Tags",
                "Open Graph title and description are present for social media sharing.",
                "socialMedia", 15, 15, "passed")
    ELSE Branch("warning", "Open Graph Tags",
                "Missing Open Graph tags. These improve social media sharing appearance.",
                "socialMedia", 0, 0, "warnings")

OpenGraphBranch(tags) ==
    IF tags.ogTitle # "" /\ tags.ogDescription # ""
    THEN Branch("passed", "Open Graph Tags",
                "Open Graph title and description are present for social media sharing.",
                "socialMedia", 15, 10, "passed")
    ELSE Branch("warning", "Open Graph Tags",
                "Missing Open Graph tags. These improve social media sharing appearance.",
                "socialMedia", 0, 0, "warnings")

\* variant: Twitter Card adds its category points to the score
TwitterCardBranch_Unified(tags) ==
    IF tags.twitterCard # ""
    THEN Branch("passed", "Twitter Card",
                "Twitter Card meta tag is present.",
                "socialMedia", 10, 10, "passed")
    ELSE Branch("warning", "Twitter Card",
                "Twitter Card meta tag is missing.",
                "socialMedia", 0, 0, "warnings")

TwitterCardBranch(tags) ==
    IF tags.twitterCard # ""
    THEN Branch("passed", "Twitter Card",
                "Twitter Card meta tag is present.",
                "socialMedia", 10, 5, "passed")
    ELSE Branch("warning", "Twitter Card",
                "Twitter Card meta tag is missing.",
                "socialMedia", 0, 0, "warnings")

\* variant: canonical is worth 15 points
CanonicalBranch_FifteenCategoryPoints(tags) ==
    IF tags.canonical # ""
    THEN Branch("passed", "Canonical URL",
                "Canonical URL is specified, helping prevent duplicate content issues.",
                "technicalSeo", 15, 15, "passed")
    ELSE Branch("warning", "Canonical URL",
                "Canonical URL is missing. Consider adding it to prevent duplicate content issues.",
                "technicalSeo", 0, 0, "warnings")

CanonicalBranch(tags) ==
    IF tags.canonical # ""
    THEN Branch("passed", "Canonical URL",
                "Canonical URL is specified, helping prevent duplicate content issues.",
                "technicalSeo", 10, 10, "passed")
    ELSE Branch("warning", "Canonical URL",
                "Canonical URL is missing. Consider adding it to prevent duplicate content issues.",
                "technicalSeo", 0, 0, "warnings")

\* variant: the missing-viewport branch increments warnings
ViewportBranch_WarningCounter(tags) ==
    IF tags.viewport # ""
    THEN Branch("passed", "Mobile Viewport",
                "Viewport meta tag is present for mobile optimization.",
                "technicalSeo", 10, 5, "passed")
    ELSE Branch("error", "Missing Viewport Tag",
                "Viewport meta tag is missing. This affects mobile usability.",
                "technicalSeo", 0, 0, "warnings")

\* variant: viewport adds its category points to the score
ViewportBranch_TenPoints(tags) ==
    IF tags.viewport # ""
    THEN Branch("passed", "Mobile Viewport",
                "Viewport meta tag is present for mobile optimization.",
                "technicalSeo", 10, 10, "passed")
    ELSE Branch("error", "Missing Viewport Tag",
                "Viewport meta tag is missing. This affects mobile usability.",
                "technicalSeo", 0, 0, "errors")

ViewportBranch(tags) ==
    IF tags.viewport # ""
    THEN Branch("passed", "Mobile Viewport",
                "Viewport meta tag is present for mobile optimization.",
                "technicalSeo", 10, 5, "passed")
    ELSE Branch("error", "Missing Viewport Tag",
                "Viewport meta tag is missing. This affects mobile usability.",
                "technicalSeo", 0, 0, "errors")

\* variant: the language finding is filed under technicalSeo
LanguageBranch_TechnicalSeo(tags) ==
    IF tags.language # ""
    THEN Branch("passed", "Language Declaration",
                "Language is declared as \"" \o tags.language \o "\".",
                "technicalSeo", 5, 5, "passed")
    ELSE Branch("warning", "Language Declaration",
                "HTML lang attribute is missing. This helps search engines understand content language.",
                "technicalSeo", 0, 0, "warnings")

LanguageBranch(tags) ==
    IF tags.language # ""
    THEN Branch("passed", "Language Declaration",
                "Language is declared as \"" \o tags.language \o "\".",
                "contentQuality", 5, 5, "passed")
    ELSE Branch("warning", "Language Declaration",
                "HTML lang attribute is missing. This helps search engines understand content language.",
                "contentQuality", 0, 0, "warnings")

\* variant: structured data is worth 5 points
StructuredDataBranch_FivePoints(tags) ==
    IF Len(tags.structuredData) > 0
    THEN Branch("passed", "Structured Data",
                "Found " \o ToString(Len(tags.structuredData))
                    \o " structured data block(s). Great for rich snippets!",
                "technicalSeo", 10, 5, "passed")
    ELSE Branch("warning", "Structured Data",
                "No structured data found. Consider adding Schema.org markup for rich snippets.",
                "technicalSeo", 0, 0, "warnings")

StructuredDataBranch(tags) ==
    IF Len(tags.structuredData) > 0
    THEN Branch("passed", "Structured Data",
                "Found " \o ToString(Len(tags.structuredData))
                    \o " structured data block(s). Great for rich snippets!",
                "technicalSeo", 10, 10, "passed")
    ELSE Branch("warning", "Structured Data",
                "No structured data found. Consider adding Schema.org markup for rich snippets.",
                "technicalSeo", 0, 0, "warnings")

\* variant: the language block precedes the viewport block
RuleOrder_LanguageBeforeViewport ==
    <<"title", "description", "openGraph", "twitterCard",
      "canonical", "language", "viewport", "structuredData">>

\* the order of the rule blocks in the function body
RuleOrder ==
    <<"title", "description", "openGraph", "twitterCard",
      "canonical", "viewport", "language", "structuredData">>

RuleBranch(rule, tags) ==
    CASE rule = "title"          -> TitleBranch(tags)
      [] rule = "description"    -> DescriptionBranch(tags)
      [] rule = "openGraph"      -> OpenGraphBranch(tags)
      [] rule = "twitterCard"    -> TwitterCardBranch(tags)
      [] rule = "canonical"      -> CanonicalBranch(tags)
      [] rule = "viewport"       -> ViewportBranch(tags)
      [] rule = "language"       -> LanguageBranch(tags)
      [] rule = "structuredData" -> StructuredDataBranch(tags)

Min(a, b) == IF a <= b THEN a ELSE b

\* the locals as declared at function entry
FreshLocals ==
    [analysis |-> <<>>, score |-> 0, passed |-> 0, warnings |-> 0,
     errors |-> 0, categoryScores |-> InitCategoryScores]

\* variant: categoryScores is created once and shared by all calls
EnterLocals_SharedCategoryScores(old) ==
    [FreshLocals EXCEPT !.categoryScores = old.categoryScores]

\* the locals a call starts with, given the locals the previous call left
EnterLocals(old) == FreshLocals

\* values of the page variables while no page is modelled
NoDoc == [loaded |-> FALSE]
NoDom == [present |-> FALSE]
NoTasks == <<>>

(***************************************************************************)
(* State machine                                                           *)
(***************************************************************************)
Init ==
    /\ metaTags \in TagRecords
    /\ pc = 1
    /\ analysis = <<>>
    /\ score = 0
    /\ passed = 0
    /\ warnings = 0
    /\ errors = 0
    /\ categoryScores = InitCategoryScores
    /\ result = [returned |-> FALSE]
    /\ calls = <<>>
    /\ doc = NoDoc
    /\ dom = NoDom
    /\ tasks = NoTasks

\* the effect of one branch body on the locals
Execute(b) ==
    IF b = NoBranch
    THEN UNCHANGED <<analysis, score, passed, warnings, errors, categoryScores>>
    ELSE /\ analysis' = Append(analysis, Item(b))
         /\ categoryScores' =
                [categoryScores EXCEPT
                    ![b.category].items = Append(@, Item(b)),
                    ![b.category].score = @ + b.catPoints]
         /\ score' = score + b.points
         /\ passed' = IF b.counter = "passed" THEN passed + 1 ELSE passed
         /\ warnings' = IF b.counter = "warnings" THEN warnings + 1 ELSE warnings
         /\ errors' = IF b.counter = "errors" THEN errors + 1 ELSE errors

\* one rule block of analyzeSEO
Rule(rule) ==
    /\ pc \in 1..Len(RuleOrder)
    /\ RuleOrder[pc] = rule
    /\ Execute(RuleBranch(rule, metaTags))
    /\ pc' = pc + 1
    /\ UNCHANGED <<metaTags, result, calls>>
    /\ UNCHANGED pageVars

TitleRule == Rule("title")
DescriptionRule == Rule("description")
OpenGraphRule == Rule("openGraph")
TwitterCardRule == Rule("twitterCard")
CanonicalRule == Rule("canonical")
ViewportRule == Rule("viewport")
LanguageRule == Rule("language")
StructuredDataRule == Rule("structuredData")

\* the return statement
Return ==
    /\ pc = Len(RuleOrder) + 1
    /\ result' = [returned |-> TRUE,
                  score |-> Min(ScoreCeiling, score),
                  passed |-> passed,
                  warnings |-> warnings,
                  errors |-> errors,
                  items |-> analysis,
                  categoryScores |-> categoryScores]
    /\ calls' = Append(calls, [tags |-> metaTags, report |-> result'])
    /\ pc' = pc + 1
    /\ UNCHANGED <<metaTags, analysis, score, passed, warnings, errors,
                   categoryScores>>
    /\ UNCHANGED pageVars

\* analyzeSEO is called again with the same tag record
CallAgain ==
    /\ pc = Len(RuleOrder) + 2
    /\ Len(calls) < MaxCalls
    /\ LET l == EnterLocals([analysis |-> analysis, score |-> score,
                             passed |-> passed, warnings |-> warnings,
                             errors |-> errors,
                             categoryScores |-> categoryScores])
       IN  /\ analysis' = l.analysis
           /\ score' = l.score
           /\ passed' = l.passed
           /\ warnings' = l.warnings
           /\ errors' = l.errors
           /\ categoryScores' = l.categoryScores
    /\ result' = [returned |-> FALSE]
    /\ pc' = 1
    /\ UNCHANGED <<metaTags, calls>>
    /\ UNCHANGED pageVars

Next ==
    \/ TitleRule
    \/ DescriptionRule
    \/ OpenGraphRule
    \/ TwitterCardRule
    \/ CanonicalRule
    \/ ViewportRule
    \/ LanguageRule
    \/ StructuredDataRule
    \/ Return
    \/ CallAgain

Spec == Init /\ [][Next]_vars

\* the function has returned
Done == result.returned

(***************************************************************************)
(* analyzeSEO as one synchronous call, as its callers see it               *)
(***************************************************************************)
\* the branch body applied to a record of the locals
ApplyBranch(l, b) ==
    IF b = NoBranch
    THEN l
    ELSE [analysis |-> Append(l.analysis, Item(b)),
          score |-> l.score + b.points,
          passed |-> IF b.counter = "passed" THEN l.passed + 1 ELSE l.passed,
          warnings |-> IF b.counter = "warnings" THEN l.warnings + 1 ELSE l.warnings,
          errors |-> IF b.counter = "errors" THEN l.errors + 1 ELSE l.errors,
          categoryScores |->
              [l.categoryScores EXCEPT
                  ![b.category].items = Append(@, Item(b)),
                  ![b.category].score = @ + b.catPoints]]

RECURSIVE RunRules(_, _, _)
\* the rule blocks from the i-th on
RunRules(l, tags, i) ==
    IF i > Len(RuleOrder)
    THEN l
    ELSE RunRules(ApplyBranch(l, RuleBranch(RuleOrder[i], tags)), tags, i + 1)

analyzeSEO(tags) ==
    LET l == RunRules(FreshLocals, tags, 1)
    IN  [returned |-> TRUE,
         score |-> Min(ScoreCeiling, l.score),
         passed |-> l.passed,
         warnings |-> l.warnings,
         errors |-> l.errors,
         items |-> l.analysis,
         categoryScores |-> l.categoryScores]

(***************************************************************************)
(* Tag records with every field the display code reads.  The fields        *)
(* keywords, robots, charset, author, ogUrl, ogType, ogSiteName and        *)
(* twitterSite are only listed by displayMetaTags and are left out.        *)
(***************************************************************************)
EmptyTags ==
    [title |-> "", description |-> "", canonical |-> "", viewport |-> "",
     language |-> "", ogTitle |-> "", ogDescription |-> "", ogImage |-> "",
     twitterCard |-> "", twitterTitle |-> "", twitterDescription |-> "",
     twitterImage |-> "", structuredData |-> <<>>]

MixedTags ==
    [title |-> "Short page", description |-> Repeat("B", 140),
     canonical |-> "", viewport |-> "width=device-width",
     language |-> "", ogTitle |-> "OG title", ogDescription |-> "",
     ogImage |-> "https://e.com/og.png",
     twitterCard |-> "summary", twitterTitle |-> "", twitterDescription |-> "",
     twitterImage |-> "", structuredData |-> <<>>]

FullTags ==
    [title |-> Repeat("A", 45), description |-> Repeat("B", 140),
     canonical |-> "https://e.com", viewport |-> "width=device-width",
     language |-> "en", ogTitle |-> "x", ogDescription |-> "y",
     ogImage |-> "https://e.com/og.png",
     twitterCard |-> "summary", twitterTitle |-> "tw title",
     twitterDescription |-> "tw description",
     twitterImage |-> "https://e.com/tw.png",
     structuredData |-> <<"{}">>]

SampleTags == {EmptyTags, MixedTags, FullTags}

(***************************************************************************)
(* The page                                                                *)
(***************************************************************************)
\* the elements as the page declares them, before the script has run
InitDom ==
    [present |-> TRUE,
     urlInput |-> "",
     analyzeBtnDisabled |-> FALSE,
     loading |-> "none",
     resultsContainer |-> "none",
     errorMessage |-> "none",
     errorText |-> "",
     seoScore |-> "", passedCount |-> "", warningCount |-> "", errorCount |-> "",
     googleUrl |-> "", googleTitle |-> "", googleDescription |-> "",
     facebookTitle |-> "", facebookDescription |-> "", facebookUrl |-> "",
     facebookImage |-> "",
     twitterTitle |-> "", twitterDescription |-> "", twitterUrl |-> "",
     twitterImage |-> "",
     analysisGrid |-> <<>>,
     categories |-> [c \in Categories |-> [rendered |-> FALSE]],
     metaTagsContainer |-> <<>>]

\* the state inside analyzeSEO while analyzeSEO is not the subject
evalVars == <<metaTags, pc, analysis, score, passed, warnings, errors,
              categoryScores, result, calls>>

(***************************************************************************)
(* displayCategorySummaries                                                *)
(***************************************************************************)
\* Math.round of the non-negative quotient n / d: floor(n / d + 1/2)
Round(n, d) == (2 * n + d) \div (2 * d)

\* variant: Math.floor in place of Math.round
Percentage_Floor(data) == (100 * data.score) \div data.maxScore

\* Math.round((score / maxScore) * 100).  The quotient is a double; a double
\* differs from the exact quotient by far less than the distance of
\* 100 * score / maxScore to the nearest half-integer, which is at least
\* 1 / (2 * maxScore) because 200 * score / maxScore is never an odd integer
\* for maxScore 30, 25 or 15, so exact arithmetic gives the same integer.
Percentage(data) == Round(100 * data.score, data.maxScore)

\* variant: the 'Good' band starts above 70
StatusOf_ExclusiveGood(percentage) ==
    IF percentage >= 90
    THEN [status |-> "Excellent", statusClass |-> "excellent",
          circleClass |-> "excellent", cardClass |-> "excellent"]
    ELSE IF percentage > 70
    THEN [status |-> "Good", statusClass |-> "good",
          circleClass |-> "good", cardClass |-> "good"]
    ELSE IF percentage >= 50
    THEN [status |-> "Needs Work", statusClass |-> "warning",
          circleClass |-> "warning", cardClass |-> "warning"]
    ELSE [status |-> "Poor", statusClass |-> "poor",
          circleClass |-> "poor", cardClass |-> "poor"]

\* the status and the three style classes of a percentage
StatusOf(percentage) ==
    IF percentage >= 90
    THEN [status |-> "Excellent", statusClass |-> "excellent",
          circleClass |-> "excellent", cardClass |-> "excellent"]
    ELSE IF percentage >= 70
    THEN [status |-> "Good", statusClass |-> "good",
          circleClass |-> "good", cardClass |-> "good"]
    ELSE IF percentage >= 50
    THEN [status |-> "Needs Work", statusClass |-> "warning",
          circleClass |-> "warning", cardClass |-> "warning"]
    ELSE [status |-> "Poor", statusClass |-> "poor",
          circleClass |-> "poor", cardClass |-> "poor"]

\* the body of the forEach callback: what one category card shows
CategoryCard(data) ==
    LET percentage == Percentage(data)
        st == StatusOf(percentage)
    IN  [rendered |-> TRUE,
         percentage |-> percentage,
         status |-> st.status,
         statusClass |-> "category-status " \o st.statusClass,
         circleClass |-> "category-score-circle " \o st.circleClass,
         cardClass |-> "category-card " \o st.cardClass]

\* the page after displayCategorySummaries(cs)
displayCategorySummaries(d, cs) ==
    [d EXCEPT !.categories = [c \in Categories |-> CategoryCard(cs[c])]]

\* the tallies of a report with one score replaced by any score up to its
\* maximum
SummaryInputs ==
    {[cs EXCEPT ![c].score = s] :
        <<cs, c, s>> \in
            {x \in {analyzeSEO(t).categoryScores : t \in SampleTags}
                     \X Categories \X (0..30) :
                x[3] <= x[1][x[2]].maxScore}}

InitSummaries ==
    /\ categoryScores \in SummaryInputs
    /\ dom = InitDom
    /\ metaTags = EmptyTags
    /\ pc = 0
    /\ analysis = <<>>
    /\ score = 0
    /\ passed = 0
    /\ warnings = 0
    /\ errors = 0
    /\ result = [returned |-> FALSE]
    /\ calls = <<>>
    /\ doc = NoDoc
    /\ tasks = NoTasks

\* the call displayCategorySummaries(categoryScores)
DisplayCategorySummaries ==
    /\ dom.present
    /\ \A c \in Categories : ~dom.categories[c].rendered
    /\ dom' = displayCategorySummaries(dom, categoryScores)
    /\ UNCHANGED <<evalVars, doc, tasks>>

NextSummaries == DisplayCategorySummaries

SpecSummaries == InitSummaries /\ [][NextSummaries]_vars

(***************************************************************************)
(* parseMetaTags and extractStructuredData.  A document is modelled by     *)
(* what the selectors find in it: for each selector the contents of the    *)
(* matching elements in document order (querySelector takes the first),    *)
(* and the texts of the JSON-LD script elements in document order.         *)
(***************************************************************************)
\* JSON.parse on the script texts used here: the parsed value, written in
\* canonical form, or a SyntaxError
JsonParse(text) ==
    CASE text = "{}" -> [ok |-> TRUE, value |-> "{}"]
      [] text = "[1, 2]" -> [ok |-> TRUE, value |-> "[1,2]"]
      [] text = " null " -> [ok |-> TRUE, value |-> "null"]
      [] OTHER -> [ok |-> FALSE]

ScriptTexts == {"{}", "[1, 2]", " null ", "{bad", ""}

RECURSIVE ExtractFrom_TryAroundLoop(_, _)
\* variant: one try block around the whole loop
ExtractFrom_TryAroundLoop(scripts, structuredData) ==
    IF scripts = <<>>
    THEN structuredData
    ELSE LET data == JsonParse(Head(scripts))
         IN  IF data.ok
             THEN ExtractFrom_TryAroundLoop(Tail(scripts),
                                            Append(structuredData, data.value))
             ELSE structuredData

RECURSIVE ExtractFrom(_, _)
\* scripts.forEach: try { push(JSON.parse(text)) } catch { skip }
ExtractFrom(scripts, structuredData) ==
    IF scripts = <<>>
    THEN structuredData
    ELSE LET data == JsonParse(Head(scripts))
         IN  IF data.ok
             THEN ExtractFrom(Tail(scripts), Append(structuredData, data.value))
             ELSE ExtractFrom(Tail(scripts), structuredData)

extractStructuredData(d) == ExtractFrom(d.scripts, <<>>)

\* doc.querySelector(sel)?.getAttribute(attr) || ''
FirstOrEmpty(matches) == IF matches = <<>> THEN "" ELSE Head(matches)

parseMetaTags(d) ==
    [title |-> FirstOrEmpty(d.title),
     description |-> FirstOrEmpty(d.description),
     canonical |-> FirstOrEmpty(d.canonical),
     viewport |-> FirstOrEmpty(d.viewport),
     ogTitle |-> FirstOrEmpty(d.ogTitle),
     ogDescription |-> FirstOrEmpty(d.ogDescription),
     ogImage |-> FirstOrEmpty(d.ogImage),
     twitterCard |-> FirstOrEmpty(d.twitterCard),
     twitterTitle |-> FirstOrEmpty(d.twitterTitle),
     twitterDescription |-> FirstOrEmpty(d.twitterDescription),
     twitterImage |-> FirstOrEmpty(d.twitterImage),
     language |-> FirstOrEmpty(d.language),
     structuredData |-> extractStructuredData(d)]

\* a document in which no selector matches
BlankDoc ==
    [loaded |-> TRUE,
     title |-> <<>>, description |-> <<>>, canonical |-> <<>>,
     viewport |-> <<>>, ogTitle |-> <<>>, ogDescription |-> <<>>,
     ogImage |-> <<>>, twitterCard |-> <<>>, twitterTitle |-> <<>>,
     twitterDescription |-> <<>>, twitterImage |-> <<>>, language |-> <<>>,
     scripts |-> <<>>]

\* a document in which every selector matches, some more than once
RichDoc ==
    [loaded |-> TRUE,
     title |-> <<Repeat("A", 45)>>,
     description |-> <<Repeat("B", 140), "second description">>,
     canonical |-> <<"https://e.com">>,
     viewport |-> <<"width=device-width">>,
     ogTitle |-> <<"x", "second og:title">>,
     ogDescription |-> <<"y">>,
     ogImage |-> <<"https://e.com/og.png">>,
     twitterCard |-> <<"summary">>,
     twitterTitle |-> <<"tw title">>,
     twitterDescription |-> <<"tw description">>,
     twitterImage |-> <<"https://e.com/tw.png">>,
     language |-> <<"en">>,
     scripts |-> <<>>]

ScriptSeqs == UNION {[1..n -> ScriptTexts] : n \in 0..MaxScripts}

ExtractDocs == {[b EXCEPT !.scripts = sc] : b \in {BlankDoc, RichDoc}, sc \in ScriptSeqs}

InitExtract ==
    /\ doc \in ExtractDocs
    /\ metaTags = EmptyTags
    /\ pc = 0
    /\ analysis = <<>>
    /\ score = 0
    /\ passed = 0
    /\ warnings = 0
    /\ errors = 0
    /\ categoryScores = InitCategoryScores
    /\ result = [returned |-> FALSE]
    /\ calls = <<>>
    /\ dom = NoDom
    /\ tasks = NoTasks

\* const metaTags = this.parseMetaTags(htmlContent), then analyzeSEO is entered
ParseMetaTags ==
    /\ pc = 0
    /\ doc.loaded
    /\ metaTags' = parseMetaTags(doc)
    /\ pc' = 1
    /\ UNCHANGED <<analysis, score, passed, warnings, errors, categoryScores,
                   result, calls>>
    /\ UNCHANGED pageVars

NextExtract == ParseMetaTags \/ Next

SpecExtract == InitExtract /\ [][NextExtract]_vars

(***************************************************************************)
(* Strings                                                                 *)
(***************************************************************************)
CharAt(str, i) == SubSeq(str, i, i)

StartsWith(str, prefix) ==
    Len(str) >= Len(prefix) /\ SubSeq(str, 1, Len(prefix)) = prefix

UpperLetters == "ABCDEFGHIJKLMNOPQRSTUVWXYZ"
LowerLetters == "abcdefghijklmnopqrstuvwxyz"

LowerChar(c) ==
    IF \E i \in 1..26 : CharAt(UpperLetters, i) = c
    THEN CharAt(LowerLetters, CHOOSE i \in 1..26 : CharAt(UpperLetters, i) = c)
    ELSE c

RECURSIVE ToLower(_)
ToLower(str) ==
    IF Len(str) = 0 THEN ""
    ELSE IF Len(str) = 1 THEN LowerChar(str)
    ELSE LET h == Len(str) \div 2
         IN  ToLower(SubSeq(str, 1, h)) \o ToLower(SubSeq(str, h + 1, Len(str)))

RECURSIVE TrimStart(_)
TrimStart(str) ==
    IF Len(str) > 0 /\ CharAt(str, 1) = " "
    THEN TrimStart(SubSeq(str, 2, Len(str)))
    ELSE str

RECURSIVE TrimEnd(_)
TrimEnd(str) ==
    IF Len(str) > 0 /\ CharAt(str, Len(str)) = " "
    THEN TrimEnd(SubSeq(str, 1, Len(str) - 1))
    ELSE str

\* String.prototype.trim
Trim(str) == TrimEnd(TrimStart(str))

\* the first position from i on whose character is in chars, else 0
RECURSIVE IndexOfAny(_, _, _)
IndexOfAny(str, chars, i) ==
    IF i > Len(str) THEN 0
    ELSE IF CharAt(str, i) \in chars THEN i
    ELSE IndexOfAny(str, chars, i + 1)

\* the first position from i on whose character is not in chars, else
\* Len(str) + 1
RECURSIVE SkipAll(_, _, _)
SkipAll(str, chars, i) ==
    IF i > Len(str) THEN i
    ELSE IF CharAt(str, i) \in chars THEN SkipAll(str, chars, i + 1)
    ELSE i

AllCharsIn(str, chars) == \A i \in 1..Len(str) : CharAt(str, i) \in chars

HtmlEscapeChar(c) ==
    CASE c = "&" -> "&amp;"
      [] c = "<" -> "&lt;"
      [] c = ">" -> "&gt;"
      [] OTHER -> c

RECURSIVE escapeHtml(_)
\* div.textContent = text; return div.innerHTML
escapeHtml(text) ==
    IF Len(text) = 0 THEN ""
    ELSE IF Len(text) = 1 THEN HtmlEscapeChar(text)
    ELSE LET h == Len(text) \div 2
         IN  escapeHtml(SubSeq(text, 1, h)) \o escapeHtml(SubSeq(text, h + 1, Len(text)))

(***************************************************************************)
(* URLs                                                                    *)
(***************************************************************************)
SchemeChars ==
    {CharAt(LowerLetters, i) : i \in 1..26} \cup {CharAt(UpperLetters, i) : i \in 1..26}
        \cup {"0", "1", "2", "3", "4", "5", "6", "7", "8", "9", "+", "-", "."}
Digits == {"0", "1", "2", "3", "4", "5", "6", "7", "8", "9"}
ForbiddenHostChars == {" ", "<", ">", "[", "]", "^", "|", "\\"}
\* the schemes whose URLs always have a host
SpecialSchemes == {"http", "https", "ftp", "ws", "wss"}

\* new URL(string) for strings without credentials or IPv6 literals: fails
\* without a scheme, with an empty or malformed host, or a non-numeric port
ParseUrl(string) ==
    LET colon == IndexOfAny(string, {":"}, 1)
        scheme == ToLower(SubSeq(string, 1, colon - 1))
        hostStart == SkipAll(string, {"/", "\\"}, colon + 1)
        stop == IndexOfAny(string, {"/", "\\", "?", "#"}, hostStart)
        hostEnd == IF stop = 0 THEN Len(string) ELSE stop - 1
        authority == SubSeq(string, hostStart, hostEnd)
        portColon == IndexOfAny(authority, {":"}, 1)
        host == IF portColon = 0 THEN authority
                ELSE SubSeq(authority, 1, portColon - 1)
        port == IF portColon = 0 THEN ""
                ELSE SubSeq(authority, portColon + 1, Len(authority))
    IN  IF colon <= 1
           \/ ~AllCharsIn(SubSeq(string, 1, colon - 1), SchemeChars)
           \/ CharAt(string, 1) \in Digits \cup {"+", "-", "."}
        THEN [ok |-> FALSE]
        ELSE IF scheme \notin SpecialSchemes
                /\ SubSeq(string, colon + 1, colon + 2) # "//"
        THEN [ok |-> TRUE, protocol |-> scheme \o ":", hostname |-> ""]
        ELSE IF Len(host) = 0
                \/ \E i \in 1..Len(host) : CharAt(host, i) \in ForbiddenHostChars
                \/ ~AllCharsIn(port, Digits)
        THEN [ok |-> FALSE]
        ELSE [ok |-> TRUE, protocol |-> scheme \o ":", hostname |-> ToLower(host)]

\* /^https?:\/\//i
HasHttpPrefix(url) ==
    StartsWith(ToLower(url), "http://") \/ StartsWith(ToLower(url), "https://")

\* variant: the protocol is never added
normalizeUrl_NoPrefix(url) == Trim(url)

normalizeUrl(url) ==
    LET u == Trim(url)
    IN  IF ~HasHttpPrefix(u) THEN "https://" \o u ELSE u

isValidUrl(string) ==
    LET url == ParseUrl(string)
    IN  url.ok /\ (url.protocol = "http:" \/ url.protocol = "https:")

(***************************************************************************)
(* displayResults                                                          *)
(***************************************************************************)
\* a || b
Or(a, b) == IF a # "" THEN a ELSE b

ImgTag(src) ==
    "<img src=\"" \o src
        \o "\" alt=\"Preview\" style=\"width: 100%; height: 100%; object-fit: cover;\">"
ImagePlaceholder == "<i class=\"fas fa-image\"></i>"

IconOf(type) ==
    CASE type = "passed" -> "fas fa-check-circle"
      [] type = "warning" -> "fas fa-exclamation-triangle"
      [] type = "error" -> "fas fa-times-circle"
      [] OTHER -> ""

\* the element appended to analysisGrid for one finding
AnalysisItem(item) ==
    [className |-> "analysis-item " \o item.type,
     icon |-> IconOf(item.type),
     title |-> item.title,
     description |-> item.description]

\* JSON.stringify(data, null, 2) on the parsed values used here
JsonStringify(data) ==
    CASE data = "{}" -> "{}"
      [] data = "[1,2]" -> "[\n  1,\n  2\n]"
      [] data = "null" -> "null"

HasContent(entry) == entry[2] # ""

\* one group of displayMetaTags: the entries with content, escaped
TagGroup(title, entries) ==
    LET shown == SelectSeq(entries, HasContent)
    IN  [title |-> title,
         tags |-> [i \in 1..Len(shown) |-> <<shown[i][1], escapeHtml(shown[i][2])>>]]

\* the children of metaTagsContainer after displayMetaTags(tags)
displayMetaTags(tags) ==
    <<TagGroup("Basic SEO Tags",
               <<<<"Title", tags.title>>,
                 <<"Meta Description", tags.description>>,
                 <<"Canonical URL", tags.canonical>>,
                 <<"Viewport", tags.viewport>>,
                 <<"Language", tags.language>>>>),
      TagGroup("Open Graph Tags",
               <<<<"og:title", tags.ogTitle>>,
                 <<"og:description", tags.ogDescription>>,
                 <<"og:image", tags.ogImage>>>>),
      TagGroup("Twitter Card Tags",
               <<<<"twitter:card", tags.twitterCard>>,
                 <<"twitter:title", tags.twitterTitle>>,
                 <<"twitter:description", tags.twitterDescription>>,
                 <<"twitter:image", tags.twitterImage>>>>)>>
    \o (IF Len(tags.structuredData) > 0
        THEN <<[title |-> "Structured Data",
                tags |-> [i \in 1..Len(tags.structuredData) |->
                             <<"JSON-LD Schema " \o ToString(i),
                               escapeHtml(JsonStringify(tags.structuredData[i]))>>]]>>
        ELSE <<>>)

\* variant: the Twitter title falls back to the page title before og:title
TwitterTitleOf_TitleFirst(tags) ==
    Or(tags.twitterTitle, Or(tags.title, Or(tags.ogTitle, "No title")))

TwitterTitleOf(tags) ==
    Or(tags.twitterTitle, Or(tags.ogTitle, Or(tags.title, "No title")))

\* the page after displayResults(tags, report, url)
displayResults(d, tags, report, url) ==
    LET domain == ParseUrl(url).hostname
        shown ==
            [d EXCEPT
                !.seoScore = ToString(report.score),
                !.passedCount = ToString(report.passed),
                !.warningCount = ToString(report.warnings),
                !.errorCount = ToString(report.errors),
                !.googleUrl = url,
                !.googleTitle = Or(tags.title, "No title"),
                !.googleDescription = Or(tags.description, "No description available"),
                !.facebookTitle = Or(tags.ogTitle, Or(tags.title, "No title")),
                !.facebookDescription =
                    Or(tags.ogDescription, Or(tags.description, "No description")),
                !.facebookUrl = domain,
                !.facebookImage =
                    IF tags.ogImage # "" THEN ImgTag(tags.ogImage) ELSE ImagePlaceholder,
                !.twitterTitle = TwitterTitleOf(tags),
                !.twitterDescription =
                    Or(tags.twitterDescription,
                       Or(tags.ogDescription, Or(tags.description, "No description"))),
                !.twitterUrl = domain,
                !.twitterImage =
                    IF tags.twitterImage # "" \/ tags.ogImage # ""
                    THEN ImgTag(Or(tags.twitterImage, tags.ogImage))
                    ELSE ImagePlaceholder,
                !.analysisGrid =
                    [i \in 1..Len(report.items) |-> AnalysisItem(report.items[i])]]
        summarised == displayCategorySummaries(shown, report.categoryScores)
    IN  [summarised EXCEPT
            !.metaTagsContainer = displayMetaTags(tags),
            !.resultsContainer = "block"]

\* tag records with every combination of present and absent preview fields
PreviewRecords ==
    [title : {"", "Page title"},
     description : {"", "Page description"},
     ogTitle : {"", "OG title"},
     ogDescription : {"", "OG description"},
     ogImage : {"", "https://e.com/og.png"},
     twitterTitle : {"", "TW title"},
     twitterDescription : {"", "TW description"},
     twitterImage : {"", "https://e.com/tw.png"},
     twitterCard : {"summary"},
     canonical : {""},
     viewport : {"width=device-width"},
     language : {"en"},
     structuredData : {<<"[1,2]">>}]

PreviewUrl == "https://Example.com/page?x=<1>"

InitPreview ==
    /\ metaTags \in PreviewRecords
    /\ dom = InitDom
    /\ pc = 0
    /\ analysis = <<>>
    /\ score = 0
    /\ passed = 0
    /\ warnings = 0
    /\ errors = 0
    /\ categoryScores = InitCategoryScores
    /\ result = [returned |-> FALSE]
    /\ calls = <<>>
    /\ doc = NoDoc
    /\ tasks = NoTasks

\* const analysis = this.analyzeSEO(metaTags, url);
\* this.displayResults(metaTags, analysis, url)
EvaluateAndDisplay ==
    /\ dom.present
    /\ dom.resultsContainer = "none"
    /\ dom' = displayResults(dom, metaTags, analyzeSEO(metaTags), PreviewUrl)
    /\ UNCHANGED <<evalVars, doc, tasks>>

NextPreview == EvaluateAndDisplay

SpecPreview == InitPreview /\ [][NextPreview]_vars

(***************************************************************************)
(* analyzeWebsite: the page, the user and the network.  An invocation runs *)
(* synchronously up to await fetch(proxyUrl); it resumes when the response *)
(* arrives and again when response.json() settles, and then runs to its    *)
(* end.  Invocations interleave only at these two awaits.  The address of  *)
(* the relay (proxyUrl) does not influence the page and is left out.       *)
(***************************************************************************)
ValidationMessage == "Please enter a valid URL"
FailureMessage == "Unable to analyze the website. Please check the URL and try again."

showLoading(d) ==
    [d EXCEPT !.loading = "block", !.resultsContainer = "none",
              !.analyzeBtnDisabled = TRUE]

\* variant: the button is not enabled again
hideLoading_ButtonStaysDisabled(d) == [d EXCEPT !.loading = "none"]

hideLoading(d) == [d EXCEPT !.loading = "none", !.analyzeBtnDisabled = FALSE]

showError(d, message) ==
    [d EXCEPT !.errorText = message, !.errorMessage = "block",
              !.resultsContainer = "none"]

hideError(d) == [d EXCEPT !.errorMessage = "none"]

\* what the user may type into the URL field
UrlInputs ==
    {"", "example.com", "ftp://example.com", "https://example.com/page",
     " HTTP://Example.com ", "exa mple.com"}

\* the documents the relay may return in data.contents
UiDocs == {BlankDoc, [RichDoc EXCEPT !.scripts = <<"{bad", "{}">>]}

\* how await response.json() may fail to deliver data.contents: the body is
\* not JSON, or it is the JSON value null and data.contents throws
UnreadableBodies == {"badJson", "nullJson"}

\* how await fetch(proxyUrl) may settle
FetchOutcomes == {"reject", "notOk", "ok"}

\* number of invocations started plus number of fetchWebsiteContent calls
\* settled so far: the position of the next event
Clock(ts) == Len(ts) + Cardinality({i \in 1..Len(ts) : ts[i].settledAt > 0}) + 1

\* an invocation that returned at one of the two validation checks
RejectedTask(input, now) ==
    [input |-> input, url |-> "", stage |-> "rejected",
     steps |-> <<"validate">>, fetches |-> 0, response |-> "", body |-> "",
     doc |-> NoDoc, report |-> [returned |-> FALSE],
     startedAt |-> now, settledAt |-> 0]

\* an invocation suspended at await fetch(proxyUrl)
FetchingTask(input, url, now) ==
    [input |-> input, url |-> url, stage |-> "fetching",
     steps |-> <<"validate", "fetch">>, fetches |-> 1, response |-> "",
     body |-> "",
     doc |-> NoDoc, report |-> [returned |-> FALSE],
     startedAt |-> now, settledAt |-> 0]

\* variant: the field is overwritten with the normalized URL before the URL
\* is validated
StartAnalysis_NormalizeField(d, now) ==
    LET input == d.urlInput
        trimmed == Trim(input)
        url == normalizeUrl(trimmed)
        written == [d EXCEPT !.urlInput = url]
    IN  IF trimmed = ""
        THEN [dom |-> showError(d, ValidationMessage),
              task |-> RejectedTask(input, now)]
        ELSE IF ~isValidUrl(url)
        THEN [dom |-> showError(written, ValidationMessage),
              task |-> RejectedTask(input, now)]
        ELSE [dom |-> hideError(showLoading(written)),
              task |-> FetchingTask(input, url, now)]

\* analyzeWebsite from its entry to its first await or return: the page and
\* the invocation it leaves
StartAnalysis(d, now) ==
    LET input == d.urlInput
        trimmed == Trim(input)
        url == normalizeUrl(trimmed)
    IN  IF trimmed = ""
        THEN [dom |-> showError(d, ValidationMessage),
              task |-> RejectedTask(input, now)]
        ELSE IF ~isValidUrl(url)
        THEN [dom |-> showError(d, ValidationMessage),
              task |-> RejectedTask(input, now)]
        ELSE [dom |-> hideError(showLoading([d EXCEPT !.urlInput = url])),
              task |-> FetchingTask(input, url, now)]

\* variant: a response with a non-success status is read like any other
ResponseThrows_NoStatusCheck(outcome) == outcome = "reject"

\* await fetch(proxyUrl) rejects, or !response.ok throws
ResponseThrows(outcome) == outcome = "reject" \/ outcome = "notOk"

\* variant: a failed analysis is fetched once more
CatchAndFinally_Retry(d, task, now) ==
    IF task.fetches < 2
    THEN [dom |-> d,
          task |-> [task EXCEPT !.stage = "fetching",
                                !.steps = Append(@, "fetch"),
                                !.fetches = @ + 1]]
    ELSE [dom |-> hideLoading(showError(d, FailureMessage)),
          task |-> [task EXCEPT !.stage = "failed", !.settledAt = now]]

\* the catch block and the finally block
CatchAndFinally(d, task, now) ==
    [dom |-> hideLoading(showError(d, FailureMessage)),
     task |-> [task EXCEPT !.stage = "failed", !.settledAt = now]]

\* variant: results already on the page are not replaced
TryBodyAndFinally_KeepShown(d, task, contents, now) ==
    LET tags == parseMetaTags(contents)
        report == analyzeSEO(tags)
    IN  [dom |-> IF d.resultsContainer = "block"
                 THEN hideLoading(d)
                 ELSE hideLoading(displayResults(d, tags, report, task.url)),
         task |-> [task EXCEPT !.stage = "done",
                               !.steps = @ \o <<"parse", "evaluate", "display">>,
                               !.doc = contents, !.report = report,
                               !.settledAt = now]]

\* the rest of the try block once htmlContent is there, and the finally block
TryBodyAndFinally(d, task, contents, now) ==
    LET tags == parseMetaTags(contents)
        report == analyzeSEO(tags)
    IN  [dom |-> hideLoading(displayResults(d, tags, report, task.url)),
         task |-> [task EXCEPT !.stage = "done",
                               !.steps = @ \o <<"parse", "evaluate", "display">>,
                               !.doc = contents, !.report = report,
                               !.settledAt = now]]

InitUI ==
    /\ dom = InitDom
    /\ tasks = <<>>
    /\ doc = NoDoc
    /\ metaTags = EmptyTags
    /\ pc = 0
    /\ analysis = <<>>
    /\ score = 0
    /\ passed = 0
    /\ warnings = 0
    /\ errors = 0
    /\ categoryScores = InitCategoryScores
    /\ result = [returned |-> FALSE]
    /\ calls = <<>>

\* the user edits the URL field
TypeUrl ==
    /\ dom.present
    /\ Len(tasks) < MaxAnalyses
    /\ \E u \in UrlInputs :
           /\ u # dom.urlInput
           /\ dom' = [dom EXCEPT !.urlInput = u]
    /\ UNCHANGED <<evalVars, doc, tasks>>

\* an invocation of analyzeWebsite up to its first await or return
AnalyzeWebsite ==
    /\ Len(tasks) < MaxAnalyses
    /\ LET started == StartAnalysis(dom, Clock(tasks))
       IN  /\ dom' = started.dom
           /\ tasks' = Append(tasks, started.task)
    /\ UNCHANGED <<evalVars, doc>>

\* click on the Analyze button; a disabled button fires no click
ClickAnalyze ==
    /\ dom.present
    /\ ~dom.analyzeBtnDisabled
    /\ AnalyzeWebsite

\* keypress of Enter in the URL field
PressEnter ==
    /\ dom.present
    /\ AnalyzeWebsite

\* await fetch(proxyUrl) settles for invocation i
FetchResponds ==
    \E i \in 1..Len(tasks), outcome \in FetchOutcomes :
        /\ tasks[i].stage = "fetching"
        /\ LET task == [tasks[i] EXCEPT !.response = outcome]
           IN  IF ResponseThrows(outcome)
               THEN LET r == CatchAndFinally(dom, task, Clock(tasks))
                    IN  /\ dom' = r.dom
                        /\ tasks' = [tasks EXCEPT ![i] = r.task]
               ELSE /\ tasks' = [tasks EXCEPT ![i] = [task EXCEPT !.stage = "reading"]]
                    /\ dom' = dom
        /\ UNCHANGED <<evalVars, doc>>

\* await response.json() rejects for invocation i, or data.contents throws
BodyUnreadable ==
    \E i \in 1..Len(tasks), kind \in UnreadableBodies :
        /\ tasks[i].stage = "reading"
        /\ LET task == [tasks[i] EXCEPT !.body = kind]
               r == CatchAndFinally(dom, task, Clock(tasks))
           IN  /\ dom' = r.dom
               /\ tasks' = [tasks EXCEPT ![i] = r.task]
        /\ UNCHANGED <<evalVars, doc>>

\* await response.json() resolves for invocation i: data.contents is parsed,
\* evaluated and displayed
BodyArrives ==
    \E i \in 1..Len(tasks), contents \in UiDocs :
        /\ tasks[i].stage = "reading"
        /\ LET task == [tasks[i] EXCEPT !.body = "json"]
               r == TryBodyAndFinally(dom, task, contents, Clock(tasks))
           IN  /\ dom' = r.dom
               /\ tasks' = [tasks EXCEPT ![i] = r.task]
        /\ UNCHANGED <<evalVars, doc>>

NextUI ==
    \/ TypeUrl
    \/ ClickAnalyze
    \/ PressEnter
    \/ FetchResponds
    \/ BodyUnreadable
    \/ BodyArrives

SpecUI == InitUI /\ [][NextUI]_vars

(***************************************************************************)
(* The first definition of analyzeSEO in script.js (the class declared     *)
(* first), which keeps no category tallies.  Each rule is the branch body  *)
(* it executes: the item pushed, the points added to score and the counter *)
(* incremented.                                                            *)
(***************************************************************************)
FirstBranch(type, title, description, points, counter) ==
    [type |-> type, title |-> title, description |-> description,
     points |-> points, counter |-> counter]

FirstTitleBranch(tags) ==
    IF tags.title # ""
    THEN IF Len(tags.title) >= 30 /\ Len(tags.title) <= 60
         THEN FirstBranch("passed", "Title Tag Length",
                          "Perfect! Title is " \o ToString(Len(tags.title))
                              \o " characters (30-60 recommended).",
                          15, "passed")
         ELSE IF Len(tags.title) > 0
         THEN FirstBranch("warning", "Title Tag Length",
                          "Title is " \o ToString(Len(tags.title))
                              \o " characters. Recommended: 30-60 characters.",
                          8, "warnings")
         ELSE NoBranch
    ELSE FirstBranch("error", "Missing Title Tag",
                     "Title tag is missing. This is crucial for SEO.",
                     0, "errors")

FirstDescriptionBranch(tags) ==
    IF tags.description # ""
    THEN IF Len(tags.description) >= 120 /\ Len(tags.description) <= 160
         THEN FirstBranch("passed", "Meta Description Length",
                          "Perfect! Description is " \o ToString(Len(tags.description))
                              \o " characters (120-160 recommended).",
                          15, "passed")
         ELSE IF Len(tags.description) > 0
         THEN FirstBranch("warning", "Meta Description Length",
                          "Description is " \o ToString(Len(tags.description))
                              \o " characters. Recommended: 120-160 characters.",
                          8, "warnings")
         ELSE NoBranch
    ELSE FirstBranch("error", "Missing Meta Description",
                     "Meta description is missing. This affects click-through rates.",
                     0, "errors")

FirstOpenGraphBranch(tags) ==
    IF tags.ogTitle # "" /\ tags.ogDescription # ""
    THEN FirstBranch("passed", "Open Graph Tags",
                     "Open Graph title and description are present for social media sharing.",
                     10, "passed")
    ELSE FirstBranch("warning", "Open Graph Tags",
                     "Missing Open Graph tags. These improve social media sharing appearance.",
                     0, "warnings")

FirstTwitterCardBranch(tags) ==
    IF tags.twitterCard # ""
    THEN FirstBranch("passed", "Twitter Card",
                     "Twitter Card meta tag is present.",
                     5, "passed")
    ELSE FirstBranch("warning", "Twitter Card",
                     "Twitter Card meta tag is missing.",
                     0, "warnings")

FirstCanonicalBranch(tags) ==
    IF tags.canonical # ""
    THEN FirstBranch("passed", "Canonical URL",
                     "Canonical URL is specified, helping prevent duplicate content issues.",
                     10, "passed")
    ELSE FirstBranch("warning", "Canonical URL",
                     "Canonical URL is missing. Consider adding it to prevent duplicate content issues.",
                     0, "warnings")

\* variant: the viewport rule adds the 10 points the later definition files
\* under technicalSeo
FirstViewportBranch_TenPoints(tags) ==
    IF tags.viewport # ""
    THEN FirstBranch("passed", "Mobile Viewport",
                     "Viewport meta tag is present for mobile optimization.",
                     10, "passed")
    ELSE FirstBranch("error", "Missing Viewport Tag",
                     "Viewport meta tag is missing. This affects mobile usability.",
                     0, "errors")

FirstViewportBranch(tags) ==
    IF tags.viewport # ""
    THEN FirstBranch("passed", "Mobile Viewport",
                     "Viewport meta tag is present for mobile optimization.",
                     5, "passed")
    ELSE FirstBranch("error", "Missing Viewport Tag",
                     "Viewport meta tag is missing. This affects mobile usability.",
                     0, "errors")

FirstLanguageBranch(tags) ==
    IF tags.language # ""
    THEN FirstBranch("passed", "Language Declaration",
                     "Language is declared as \"" \o tags.language \o "\".",
                     5, "passed")
    ELSE FirstBranch("warning", "Language Declaration",
                     "HTML lang attribute is missing. This helps search engines understand content language.",
                     0, "warnings")

FirstStructuredDataBranch(tags) ==
    IF Len(tags.structuredData) > 0
    THEN FirstBranch("passed", "Structured Data",
                     "Found " \o ToString(Len(tags.structuredData))
                         \o " structured data block(s). Great for rich snippets!",
                     10, "passed")
    ELSE FirstBranch("warning", "Structured Data",
                     "No structured data found. Consider adding Schema.org markup for rich snippets.",
                     0, "warnings")

\* the rule blocks of the first definition, in the order of its body
FirstRuleBranches(tags) ==
    <<FirstTitleBranch(tags), FirstDescriptionBranch(tags),
      FirstOpenGraphBranch(tags), FirstTwitterCardBranch(tags),
      FirstCanonicalBranch(tags), FirstViewportBranch(tags),
      FirstLanguageBranch(tags), FirstStructuredDataBranch(tags)>>

FirstLocals ==
    [analysis |-> <<>>, score |-> 0, passed |-> 0, warnings |-> 0, errors |-> 0]

FirstApplyBranch(l, b) ==
    IF b = NoBranch
    THEN l
    ELSE [analysis |-> Append(l.analysis, Item(b)),
          score |-> l.score + b.points,
          passed |-> IF b.counter = "passed" THEN l.passed + 1 ELSE l.passed,
          warnings |-> IF b.counter = "warnings" THEN l.warnings + 1 ELSE l.warnings,
          errors |-> IF b.counter = "errors" THEN l.errors + 1 ELSE l.errors]

RECURSIVE FirstRunRules(_, _, _)
FirstRunRules(l, branches, i) ==
    IF i > Len(branches)
    THEN l
    ELSE FirstRunRules(FirstApplyBranch(l, branches[i]), branches, i + 1)

FirstAnalyzeSEO(tags) ==
    LET l == FirstRunRules(FirstLocals, FirstRuleBranches(tags), 1)
    IN  [returned |-> TRUE,
         score |-> Min(100, l.score),
         passed |-> l.passed,
         warnings |-> l.warnings,
         errors |-> l.errors,
         items |-> l.analysis]

\* one tag record is evaluated by the first definition and then by the second
InitVersions ==
    /\ metaTags \in TagRecords
    /\ pc = 0
    /\ analysis = <<>>
    /\ score = 0
    /\ passed = 0
    /\ warnings = 0
    /\ errors = 0
    /\ categoryScores = InitCategoryScores
    /\ result = [returned |-> FALSE]
    /\ calls = <<>>
    /\ doc = NoDoc
    /\ dom = NoDom
    /\ tasks = NoTasks

\* the first definition is applied to the record
AnalyzeFirst ==
    /\ pc = 0
    /\ calls' = <<[tags |-> metaTags, report |-> FirstAnalyzeSEO(metaTags)]>>
    /\ pc' = 1
    /\ UNCHANGED <<metaTags, analysis, score, passed, warnings, errors,
                   categoryScores, result, pageVars>>

\* the second definition is applied to the record
AnalyzeSecond ==
    /\ pc = 1
    /\ result' = analyzeSEO(metaTags)
    /\ pc' = 2
    /\ UNCHANGED <<metaTags, analysis, score, passed, warnings, errors,
                   categoryScores, calls, pageVars>>

NextVersions == AnalyzeFirst \/ AnalyzeSecond

SpecVersions == InitVersions /\ [][NextVersions]_vars

(***************************************************************************)
(* Vocabulary of the properties                                            *)
(***************************************************************************)
\* the rule a finding belongs to, read off the finding's title
RuleOfFinding(item) ==
    CASE item.title \in {"Title Tag Length", "Missing Title Tag"} -> "title"
      [] item.title \in {"Meta Description Length", "Missing Meta Description"}
            -> "description"
      [] item.title = "Open Graph Tags" -> "openGraph"
      [] item.title = "Twitter Card" -> "twitterCard"
      [] item.title = "Canonical URL" -> "canonical"
      [] item.title \in {"Mobile Viewport", "Missing Viewport Tag"} -> "viewport"
      [] item.title = "Language Declaration" -> "language"
      [] item.title = "Structured Data" -> "structuredData"
      [] OTHER -> "unknown"

\* the direct-score table: points of a finding of a rule by its kind
DirectPoints(item) ==
    LET r == RuleOfFinding(item) IN
    IF item.type = "passed"
    THEN CASE r \in {"title", "description"} -> 15
           [] r \in {"openGraph", "canonical", "structuredData"} -> 10
           [] r \in {"twitterCard", "viewport", "language"} -> 5
           [] OTHER -> 0
    ELSE IF item.type = "warning" /\ r \in {"title", "description"} THEN 8
    ELSE 0

RECURSIVE SumDirect(_)
SumDirect(items) ==
    IF items = <<>> THEN 0 ELSE DirectPoints(Head(items)) + SumDirect(Tail(items))

CountKind(items, kind) == Cardinality({i \in 1..Len(items) : items[i].type = kind})

\* every field read by the evaluator is empty, no structured data
AllEmptyExcept(tags, fields) ==
    /\ "title" \in fields \/ tags.title = ""
    /\ "description" \in fields \/ tags.description = ""
    /\ "ogTitle" \in fields \/ tags.ogTitle = ""
    /\ "ogDescription" \in fields \/ tags.ogDescription = ""
    /\ "twitterCard" \in fields \/ tags.twitterCard = ""
    /\ "canonical" \in fields \/ tags.canonical = ""
    /\ "viewport" \in fields \/ tags.viewport = ""
    /\ "language" \in fields \/ tags.language = ""
    /\ "structuredData" \in fields \/ tags.structuredData = <<>>

\* sum of the four category scores
CatTotal(cs) ==
    cs.basicSeo.score + cs.socialMedia.score + cs.technicalSeo.score
        + cs.contentQuality.score

(***************************************************************************)
(* C1: the returned score is min(100, sum of the direct points of the      *)
(* findings) per the direct-score table, and is an integer in 0..100.      *)
(***************************************************************************)
C1_ScoreIsClampedDirectSum ==
    Done => /\ result.score = Min(100, SumDirect(result.items))
            /\ result.score \in 0..100

C1_Witness ==
    /\ Done
    /\ result.score = 75
    /\ \A i \in 1..Len(result.items) : result.items[i].type = "passed"

(***************************************************************************)
(* C2: every rule block appends exactly one finding, so the evaluator      *)
(* returns exactly 8 findings for every tag record.                        *)
(***************************************************************************)
C2_ExactlyEightFindings ==
    /\ Len(analysis) = Min(pc, 9) - 1
    /\ Done => Len(result.items) = 8

C2_Witness ==
    /\ Done
    /\ Len(result.items) = 8
    /\ Len(metaTags.title) = 1
    /\ metaTags.description = ""

(***************************************************************************)
(* C3: the findings are in rule order: title, description, Open Graph,     *)
(* Twitter Card, canonical, viewport, language, structured data, whatever  *)
(* branch each rule takes.                                                 *)
(***************************************************************************)
C3_FindingsInRuleOrder ==
    Done =>
        /\ Len(result.items) = 8
        /\ RuleOfFinding(result.items[1]) = "title"
        /\ RuleOfFinding(result.items[2]) = "description"
        /\ RuleOfFinding(result.items[3]) = "openGraph"
        /\ RuleOfFinding(result.items[4]) = "twitterCard"
        /\ RuleOfFinding(result.items[5]) = "canonical"
        /\ RuleOfFinding(result.items[6]) = "viewport"
        /\ RuleOfFinding(result.items[7]) = "language"
        /\ RuleOfFinding(result.items[8]) = "structuredData"

C3_Witness ==
    /\ Done
    /\ result.items[1].type = "error"
    /\ result.items[2].type = "warning"
    /\ result.items[6].type = "passed"
    /\ result.items[8].type = "passed"

(***************************************************************************)
(* C4: passed + warnings + errors equals the number of findings and each   *)
(* counter equals the number of findings of its kind.                      *)
(***************************************************************************)
C4_CountersMatchFindings ==
    Done =>
        /\ result.passed + result.warnings + result.errors = Len(result.items)
        /\ result.passed = CountKind(result.items, "passed")
        /\ result.warnings = CountKind(result.items, "warning")
        /\ result.errors = CountKind(result.items, "error")

C4_Witness ==
    /\ Done
    /\ result.passed > 0
    /\ result.warnings > 0
    /\ result.errors > 0

(***************************************************************************)
(* C5 (as stated): with every field empty and no structured data the       *)
(* report has score 0, 2 errors (title and viewport only), 6 warnings and  *)
(* 0 passed.                                                               *)
(***************************************************************************)
C5_Original ==
    (Done /\ AllEmptyExcept(metaTags, {})) =>
        /\ result.score = 0
        /\ result.errors = 2
        /\ result.warnings = 6
        /\ result.passed = 0

(***************************************************************************)
(* C5 (amended): with every field empty and no structured data the report  *)
(* has score 0, 3 errors (the title, description and viewport findings),   *)
(* 5 warnings and 0 passed.                                                *)
(***************************************************************************)
C5_AllEmptyReport ==
    (Done /\ AllEmptyExcept(metaTags, {})) =>
        /\ result.score = 0
        /\ result.errors = 3
        /\ {i \in 1..Len(result.items) : result.items[i].type = "error"} = {1, 2, 6}
        /\ result.warnings = 5
        /\ result.passed = 0

C5_Witness ==
    /\ Done
    /\ AllEmptyExcept(metaTags, {})
    /\ result.errors = 3

(***************************************************************************)
(* C6 (as stated): with every field empty except a non-empty viewport the  *)
(* report has 1 error (the title finding only) and score 5.                *)
(***************************************************************************)
C6_Original ==
    (Done /\ AllEmptyExcept(metaTags, {"viewport"}) /\ metaTags.viewport # "") =>
        /\ result.errors = 1
        /\ result.score = 5

(***************************************************************************)
(* C6 (amended): with every field empty except a non-empty viewport the    *)
(* report has 2 errors (the title and description findings) and score 5.   *)
(***************************************************************************)
C6_ViewportOnlyReport ==
    (Done /\ AllEmptyExcept(metaTags, {"viewport"}) /\ metaTags.viewport # "") =>
        /\ result.errors = 2
        /\ {i \in 1..Len(result.items) : result.items[i].type = "error"} = {1, 2}
        /\ result.score = 5

C6_Witness ==
    /\ Done
    /\ AllEmptyExcept(metaTags, {"viewport"})
    /\ metaTags.viewport = "w"
    /\ result.score = 5

\* a rule block has just appended the finding analysis'[Len(analysis')]
RuleStep == Len(analysis') = Len(analysis) + 1
StepFinding == analysis'[Len(analysis')]
StepDirect == score' - score
StepCategory == CatTotal(categoryScores') - CatTotal(categoryScores)

(***************************************************************************)
(* C7 (as stated): a rule's direct points differ from its category points  *)
(* for exactly two rules, Open Graph (10 vs 15) and Twitter Card (5 vs     *)
(* 10); for the other six rules they are equal in every branch.            *)
(***************************************************************************)
C7_Original ==
    [][RuleStep =>
        LET r == RuleOfFinding(StepFinding) IN
        /\ (r = "openGraph" /\ StepFinding.type = "passed")
               => (StepDirect = 10 /\ StepCategory = 15)
        /\ (r = "twitterCard" /\ StepFinding.type = "passed")
               => (StepDirect = 5 /\ StepCategory = 10)
        /\ r \in {"title", "description", "canonical", "viewport", "language",
                  "structuredData"}
               => StepDirect = StepCategory]_vars

(***************************************************************************)
(* C7 (amended): a rule's direct points differ from its category points    *)
(* for exactly three rules, Open Graph (10 vs 15), Twitter Card (5 vs 10)  *)
(* and viewport (5 vs 10), each in its passed branch; for the other five   *)
(* rules they are equal in every branch.                                   *)
(***************************************************************************)
C7_ThreeRulesDiffer ==
    [][RuleStep =>
        LET r == RuleOfFinding(StepFinding) IN
        /\ (r = "openGraph" /\ StepFinding.type = "passed")
               => (StepDirect = 10 /\ StepCategory = 15)
        /\ (r = "twitterCard" /\ StepFinding.type = "passed")
               => (StepDirect = 5 /\ StepCategory = 10)
        /\ (r = "viewport" /\ StepFinding.type = "passed")
               => (StepDirect = 5 /\ StepCategory = 10)
        /\ (r \in {"openGraph", "twitterCard", "viewport"}
                /\ StepFinding.type # "passed")
               => (StepDirect = 0 /\ StepCategory = 0)
        /\ r \in {"title", "description", "canonical", "language",
                  "structuredData"}
               => StepDirect = StepCategory]_vars

C7_Witness ==
    /\ pc = 7
    /\ Len(analysis) = 6
    /\ analysis[6].title = "Mobile Viewport"
    /\ analysis[3].type = "passed"
    /\ analysis[4].type = "passed"
    /\ CatTotal(categoryScores) - score = 15

(***************************************************************************)
(* C8: title boundaries are inclusive: length 30..60 gives a passed        *)
(* finding, a non-empty title shorter than 30 or longer than 60 a warning, *)
(* length 0 an error.                                                      *)
(***************************************************************************)
C8_TitleBoundaries ==
    Done =>
        LET n == Len(metaTags.title)
            f == result.items[1]
        IN  /\ RuleOfFinding(f) = "title"
            /\ (n >= 30 /\ n <= 60) => f.type = "passed"
            /\ ((n >= 1 /\ n <= 29) \/ n > 60) => f.type = "warning"
            /\ n = 0 => f.type = "error"

C8_Witness ==
    /\ Done
    /\ Len(metaTags.title) = 60
    /\ result.items[1].type = "passed"

(***************************************************************************)
(* C9: description boundaries are inclusive: length 120..160 gives a       *)
(* passed finding, a non-empty description shorter than 120 or longer than *)
(* 160 a warning, length 0 an error.                                       *)
(***************************************************************************)
C9_DescriptionBoundaries ==
    Done =>
        LET n == Len(metaTags.description)
            f == result.items[2]
        IN  /\ RuleOfFinding(f) = "description"
            /\ (n >= 120 /\ n <= 160) => f.type = "passed"
            /\ ((n >= 1 /\ n <= 119) \/ n > 160) => f.type = "warning"
            /\ n = 0 => f.type = "error"

C9_Witness ==
    /\ Done
    /\ Len(metaTags.description) = 120
    /\ result.items[2].type = "passed"

(***************************************************************************)
(* C10: every category tally satisfies 0 <= score <= maxScore, and the     *)
(* four maxScore values are 30, 25, 30 and 15, which sum to 100.           *)
(***************************************************************************)
TalliesWithinMax(cs) ==
    /\ \A c \in Categories : cs[c].score >= 0 /\ cs[c].score <= cs[c].maxScore
    /\ cs.basicSeo.maxScore = 30
    /\ cs.socialMedia.maxScore = 25
    /\ cs.technicalSeo.maxScore = 30
    /\ cs.contentQuality.maxScore = 15
    /\ cs.basicSeo.maxScore + cs.socialMedia.maxScore
         + cs.technicalSeo.maxScore + cs.contentQuality.maxScore = 100

C10_TalliesWithinMax ==
    /\ TalliesWithinMax(categoryScores)
    /\ Done => TalliesWithinMax(result.categoryScores)

C10_Witness ==
    /\ Done
    /\ result.categoryScores.basicSeo.score = 30
    /\ result.categoryScores.socialMedia.score = 25
    /\ result.categoryScores.technicalSeo.score = 30

(***************************************************************************)
(* C11: each category's earned score is the sum of the category points of  *)
(* its own rules (basicSeo: title and description 15/8/0; socialMedia:     *)
(* Open Graph 15, Twitter Card 10; technicalSeo: canonical, viewport and   *)
(* structured data 10 each; contentQuality: language 5), and each rule's   *)
(* finding is filed under its own category only.                           *)
(***************************************************************************)
CategoryPoints(item) ==
    LET r == RuleOfFinding(item) IN
    IF item.type = "passed"
    THEN CASE r \in {"title", "description", "openGraph"} -> 15
           [] r \in {"twitterCard", "canonical", "viewport", "structuredData"} -> 10
           [] r = "language" -> 5
           [] OTHER -> 0
    ELSE IF item.type = "warning" /\ r \in {"title", "description"} THEN 8
    ELSE 0

C11_CategoryScoreIsSumOfOwnRules ==
    Done =>
        LET f == result.items
            cs == result.categoryScores
        IN  /\ Len(f) = 8
            /\ cs.basicSeo.score = CategoryPoints(f[1]) + CategoryPoints(f[2])
            /\ cs.socialMedia.score = CategoryPoints(f[3]) + CategoryPoints(f[4])
            /\ cs.technicalSeo.score =
                   CategoryPoints(f[5]) + CategoryPoints(f[6]) + CategoryPoints(f[8])
            /\ cs.contentQuality.score = CategoryPoints(f[7])
            /\ cs.basicSeo.items = <<f[1], f[2]>>
            /\ cs.socialMedia.items = <<f[3], f[4]>>
            /\ cs.technicalSeo.items = <<f[5], f[6], f[8]>>
            /\ cs.contentQuality.items = <<f[7]>>

C11_Witness ==
    /\ Done
    /\ result.categoryScores.basicSeo.score = 23
    /\ result.categoryScores.socialMedia.score = 10
    /\ result.categoryScores.technicalSeo.score = 20
    /\ result.categoryScores.contentQuality.score = 5

(***************************************************************************)
(* C12: when all eight rules pass the report has score 75, 8 passed,       *)
(* 0 warnings and 0 errors.                                                *)
(***************************************************************************)
AllRulesPass(tags) ==
    /\ Len(tags.title) >= 30 /\ Len(tags.title) <= 60
    /\ Len(tags.description) >= 120 /\ Len(tags.description) <= 160
    /\ tags.ogTitle # "" /\ tags.ogDescription # ""
    /\ tags.twitterCard # ""
    /\ tags.canonical # ""
    /\ tags.viewport # ""
    /\ tags.language # ""
    /\ Len(tags.structuredData) > 0

C12_AllPassReport ==
    (Done /\ AllRulesPass(metaTags)) =>
        /\ result.score = 75
        /\ result.passed = 8
        /\ result.warnings = 0
        /\ result.errors = 0

C12_Witness ==
    /\ Done
    /\ AllRulesPass(metaTags)
    /\ Len(metaTags.title) = 30
    /\ Len(metaTags.description) = 160
    /\ result.passed = 8

(***************************************************************************)
(* C18: an evaluation never changes its tag record, and an evaluation      *)
(* returns the same report as every earlier evaluation of an equal tag     *)
(* record: nothing written by one call is read by a later one.             *)
(***************************************************************************)
C18_DeterministicNoSideEffect ==
    [][/\ metaTags' = metaTags
       /\ (result'.returned /\ ~result.returned) =>
              \A i \in 1..Len(calls) :
                  calls[i].tags = metaTags => calls[i].report = result']_vars

C18_Witness ==
    /\ Len(calls) = 2
    /\ calls[1].tags = calls[2].tags
    /\ calls[2].report = calls[1].report
    /\ calls[2].report.score = 23
    /\ calls[2].report.categoryScores.socialMedia.score = 25

(***************************************************************************)
(* C13: each category card shows percentage = round(100 * score /          *)
(* maxScore) and exactly one status: 'Excellent' from 90, 'Good' from 70,  *)
(* 'Needs Work' from 50, 'Poor' below.                                     *)
(***************************************************************************)
\* p is the integer nearest to n / d, the half rounded up
IsRounded(p, n, d) == 2 * d * p - d <= 2 * n /\ 2 * n < 2 * d * p + d

C13_PercentageAndBand ==
    \A c \in Categories :
        dom.present /\ dom.categories[c].rendered =>
            LET card == dom.categories[c]
                p == card.percentage
            IN  /\ IsRounded(p, 100 * categoryScores[c].score,
                             categoryScores[c].maxScore)
                /\ card.status \in {"Excellent", "Good", "Needs Work", "Poor"}
                /\ card.status = "Excellent" <=> p >= 90
                /\ card.status = "Good" <=> (p >= 70 /\ p < 90)
                /\ card.status = "Needs Work" <=> (p >= 50 /\ p < 70)
                /\ card.status = "Poor" <=> p < 50

C13_Witness ==
    /\ dom.present
    /\ dom.categories.technicalSeo.rendered
    /\ categoryScores.technicalSeo.score = 21
    /\ dom.categories.technicalSeo.percentage = 70
    /\ dom.categories.technicalSeo.status = "Good"
    /\ dom.categories.basicSeo.percentage = 77
    /\ dom.categories.socialMedia.status = "Poor"

(***************************************************************************)
(* C19: extractStructuredData returns exactly the script blocks that are   *)
(* valid JSON, parsed, in document order, dropping the invalid ones, and   *)
(* the structured-data rule passes iff at least one block is valid.        *)
(***************************************************************************)
IsValidJsonText(text) == text \in {"{}", "[1, 2]", " null "}
ParsedValue(text) ==
    CASE text = "{}" -> "{}" [] text = "[1, 2]" -> "[1,2]" [] text = " null " -> "null"

C19_ValidBlocksInOrder ==
    (doc.loaded /\ pc >= 1) =>
        LET valid == SelectSeq(doc.scripts, IsValidJsonText)
            sd == metaTags.structuredData
        IN  /\ Len(sd) = Len(valid)
            /\ \A i \in 1..Len(valid) : sd[i] = ParsedValue(valid[i])
            /\ Done => (result.items[8].type = "passed" <=> Len(valid) > 0)
            /\ Done => (result.items[8].type = "warning" <=> Len(valid) = 0)

C19_Witness ==
    /\ doc.loaded
    /\ Done
    /\ doc.scripts = <<"{bad", "[1, 2]", "{}">>
    /\ metaTags.structuredData = <<"[1,2]", "{}">>
    /\ result.items[8].type = "passed"

(***************************************************************************)
(* C20: each preview field shows the first non-empty value of its chain:   *)
(* Facebook title ogTitle, title, 'No title'; Twitter title twitterTitle,  *)
(* ogTitle, title, 'No title'; descriptions likewise ending in             *)
(* 'No description'; Facebook image ogImage else the placeholder; Twitter  *)
(* image twitterImage, ogImage, else the placeholder.                      *)
(***************************************************************************)
\* the first non-empty string of chain, or fallback
FirstNonEmpty(chain, fallback) ==
    IF \E i \in 1..Len(chain) : chain[i] # ""
    THEN chain[CHOOSE i \in 1..Len(chain) :
                   chain[i] # "" /\ \A j \in 1..(i - 1) : chain[j] = ""]
    ELSE fallback

\* the markup shows an image whose source is src
ShowsImage(markup, src) == StartsWith(markup, "<img src=\"" \o src \o "\"")

C20_PreviewFallbackChains ==
    (dom.present /\ dom.resultsContainer = "block") =>
        LET t == metaTags
            fbImage == FirstNonEmpty(<<t.ogImage>>, "")
            twImage == FirstNonEmpty(<<t.twitterImage, t.ogImage>>, "")
        IN  /\ dom.facebookTitle = FirstNonEmpty(<<t.ogTitle, t.title>>, "No title")
            /\ dom.twitterTitle =
                   FirstNonEmpty(<<t.twitterTitle, t.ogTitle, t.title>>, "No title")
            /\ dom.facebookDescription =
                   FirstNonEmpty(<<t.ogDescription, t.description>>, "No description")
            /\ dom.twitterDescription =
                   FirstNonEmpty(<<t.twitterDescription, t.ogDescription, t.description>>,
                                 "No description")
            /\ IF fbImage = "" THEN dom.facebookImage = ImagePlaceholder
                               ELSE ShowsImage(dom.facebookImage, fbImage)
            /\ IF twImage = "" THEN dom.twitterImage = ImagePlaceholder
                               ELSE ShowsImage(dom.twitterImage, twImage)

C20_Witness ==
    /\ dom.present
    /\ dom.resultsContainer = "block"
    /\ metaTags.twitterTitle = ""
    /\ metaTags.ogTitle = "OG title"
    /\ metaTags.title = "Page title"
    /\ dom.twitterTitle = "OG title"
    /\ metaTags.twitterImage = ""
    /\ metaTags.ogImage # ""
    /\ dom.twitterImage = dom.facebookImage
    /\ dom.facebookDescription = "No description"

(***************************************************************************)
(* C14.  An input URL that does not carry an http:// or https:// protocol  *)
(* (for example 'example.com' or 'ftp://example.com') is rejected before   *)
(* any network activity: the invocation of analyzeWebsite that reads it    *)
(* returns at the validation error and issues no fetch.                    *)
(***************************************************************************)
\* the text, surrounding white space aside, begins with http:// or https://
CarriesHttpProtocol(input) ==
    LET text == ToLower(Trim(input))
    IN  StartsWith(text, "http://") \/ StartsWith(text, "https://")

C14_RejectedBeforeFetch ==
    \A i \in 1..Len(tasks) :
        ~CarriesHttpProtocol(tasks[i].input) =>
            /\ tasks[i].stage = "rejected"
            /\ tasks[i].fetches = 0

(***************************************************************************)
(* C15.  An analysis whose fetch rejects, whose response has a non-success *)
(* status or whose response body cannot be parsed ends with the generic    *)
(* 'Unable to analyze the website' message visible and the results         *)
(* container hidden, and parseMetaTags, analyzeSEO and displayResults are  *)
(* not run for it; when it is the only analysis of the page, no score and  *)
(* no finding has been written to the page.                                *)
(***************************************************************************)
FetchFailed(task) ==
    task.response \in {"reject", "notOk"} \/ task.body = "badJson"

Ended(task) == task.stage \in {"done", "failed"}

\* the end of invocation i is the latest start or end of any invocation
EndedLatest(i) == Ended(tasks[i]) /\ tasks[i].settledAt = Clock(tasks) - 1

C15_FailureShowsGenericError ==
    \A i \in 1..Len(tasks) :
        (EndedLatest(i) /\ FetchFailed(tasks[i])) =>
            /\ dom.errorMessage = "block"
            /\ dom.errorText = FailureMessage
            /\ dom.resultsContainer = "none"
            /\ tasks[i].steps = <<"validate", "fetch">>
            /\ ~tasks[i].report.returned
            /\ Len(tasks) = 1 => (dom.seoScore = "" /\ dom.analysisGrid = <<>>)

C15_Witness ==
    /\ Len(tasks) = 1
    /\ tasks[1].stage = "failed"
    /\ tasks[1].response = "ok"
    /\ tasks[1].body = "badJson"
    /\ dom.errorMessage = "block"
    /\ dom.loading = "none"

(***************************************************************************)
(* C16.  Every triggered analysis issues at most one fetch and its steps   *)
(* are an initial part of validate, fetch, parse, evaluate, display, in    *)
(* that order; parse happens only after the fetch of the same analysis has *)
(* delivered its content.                                                  *)
(***************************************************************************)
StepOrder == <<"validate", "fetch", "parse", "evaluate", "display">>

IsPrefix(a, b) == Len(a) <= Len(b) /\ a = SubSeq(b, 1, Len(a))

C16_OneFetchStepsInOrder ==
    \A i \in 1..Len(tasks) :
        /\ tasks[i].fetches <= 1
        /\ IsPrefix(tasks[i].steps, StepOrder)
        /\ Len(tasks[i].steps) > 2 =>
               (tasks[i].response = "ok" /\ tasks[i].body = "json")

C16_Witness ==
    /\ Len(tasks) >= 2
    /\ tasks[1].steps = StepOrder
    /\ tasks[1].fetches = 1
    /\ tasks[2].stage = "failed"
    /\ tasks[2].steps = <<"validate", "fetch">>
    /\ tasks[2].fetches = 1

(***************************************************************************)
(* C17.  When two analyses overlap (each is triggered before the other     *)
(* ends) and both end successfully, the report of each is the report of    *)
(* its own document, and the score, counts and findings on the page are    *)
(* those of the successful analysis whose fetch step (fetchWebsiteContent, *)
(* which ends when the response body has been read) ended last, whichever  *)
(* was triggered first.                                                    *)
(***************************************************************************)
Overlap(i, j) ==
    /\ i # j
    /\ tasks[i].stage = "done"
    /\ tasks[j].stage = "done"
    /\ tasks[i].startedAt < tasks[j].settledAt
    /\ tasks[j].startedAt < tasks[i].settledAt

\* the successful analysis that ended last
LastDone ==
    CHOOSE i \in 1..Len(tasks) :
        /\ tasks[i].stage = "done"
        /\ \A j \in 1..Len(tasks) :
               tasks[j].stage = "done" => tasks[j].settledAt <= tasks[i].settledAt

\* the report of the document of analysis i, evaluated on its own
ReportAlone(i) == analyzeSEO(parseMetaTags(tasks[i].doc))

C17_LastWriteWins ==
    (\E i, j \in 1..Len(tasks) : Overlap(i, j)) =>
        LET report == ReportAlone(LastDone)
        IN  /\ \A i \in 1..Len(tasks) :
                   tasks[i].stage = "done" => tasks[i].report = ReportAlone(i)
            /\ dom.seoScore = ToString(report.score)
            /\ dom.passedCount = ToString(report.passed)
            /\ dom.warningCount = ToString(report.warnings)
            /\ dom.errorCount = ToString(report.errors)
            /\ dom.analysisGrid =
                   [k \in 1..Len(report.items) |-> AnalysisItem(report.items[k])]

C17_Witness ==
    /\ Len(tasks) >= 2
    /\ Overlap(1, 2)
    /\ tasks[2].settledAt < tasks[1].settledAt
    /\ tasks[1].report.score # tasks[2].report.score
    /\ dom.seoScore = ToString(tasks[1].report.score)
    /\ dom.resultsContainer = "block"

(***************************************************************************)
(* C21.  An analysis that passes URL validation shows the loading          *)
(* indicator and disables the Analyze button before its fetch; when its    *)
(* fetch step settles, with success or with any failure (an exception      *)
(* thrown after the response arrived included), it ends with the loading   *)
(* indicator hidden and the button enabled; when no other analysis is in   *)
(* flight at that moment, results are visible after a success and the      *)
(* error is visible after a failure.                                       *)
(***************************************************************************)
Pending(task) == task.stage \in {"fetching", "reading"}

\* invocation i passed validation and its start is the latest start or end
StartedLatest(i) ==
    tasks[i].fetches > 0 /\ tasks[i].startedAt = Clock(tasks) - 1

Delivered(task) == task.response = "ok" /\ task.body = "json"

C21_LoadingBracketsTheFetch ==
    \A i \in 1..Len(tasks) :
        /\ StartedLatest(i) =>
               (dom.loading = "block" /\ dom.analyzeBtnDisabled)
        /\ EndedLatest(i) =>
               /\ dom.loading = "none"
               /\ ~dom.analyzeBtnDisabled
               /\ (\A j \in 1..Len(tasks) : ~Pending(tasks[j])) =>
                      IF Delivered(tasks[i])
                      THEN dom.resultsContainer = "block"
                      ELSE dom.errorMessage = "block"

C21_Witness ==
    /\ Len(tasks) >= 2
    /\ tasks[1].stage = "failed"
    /\ tasks[1].body = "nullJson"
    /\ EndedLatest(2)
    /\ Delivered(tasks[2])
    /\ tasks[1].settledAt < tasks[2].startedAt
    /\ dom.loading = "none"
    /\ ~dom.analyzeBtnDisabled
    /\ dom.resultsContainer = "block"

(***************************************************************************)
(* C22.  When analyzeWebsite rejects its input (the trimmed input is       *)
(* empty, or the normalized URL fails isValidUrl) it shows 'Please enter a *)
(* valid URL' and hides the results container and changes nothing else:    *)
(* no fetch is issued, the loading indicator, the Analyze button and the   *)
(* value of the input field are as they were.                              *)
(***************************************************************************)
\* this step is an invocation of analyzeWebsite
Invoked == Len(tasks') = Len(tasks) + 1

Rejects(input) ==
    Trim(input) = "" \/ ~isValidUrl(normalizeUrl(Trim(input)))

C22_RejectionChangesOnlyTheError ==
    [][(Invoked /\ Rejects(dom.urlInput)) =>
           /\ dom' = [dom EXCEPT !.errorText = "Please enter a valid URL",
                                 !.errorMessage = "block",
                                 !.resultsContainer = "none"]
           /\ tasks'[Len(tasks')].fetches = 0
           /\ SubSeq(tasks', 1, Len(tasks)) = tasks]_vars

C22_Witness ==
    /\ Len(tasks) >= 2
    /\ Pending(tasks[1])
    /\ tasks[2].stage = "rejected"
    /\ tasks[2].input = "exa mple.com"
    /\ dom.urlInput = "exa mple.com"
    /\ dom.errorText = "Please enter a valid URL"
    /\ dom.errorMessage = "block"
    /\ dom.loading = "block"

(***************************************************************************)
(* C23.  Whenever at least one analysis has passed validation and its      *)
(* fetch has not settled, the loading indicator is visible and the Analyze *)
(* button is disabled, in every interleaving.                              *)
(***************************************************************************)
C23_LoadingWhilePending ==
    (\E i \in 1..Len(tasks) : Pending(tasks[i])) =>
        (dom.loading = "block" /\ dom.analyzeBtnDisabled)

(***************************************************************************)
(* C24.  The error message and the results container are never visible at *)
(* the same time, in any reachable state of the page.                      *)
(***************************************************************************)
C24_ErrorAndResultsExclusive ==
    ~(dom.errorMessage = "block" /\ dom.resultsContainer = "block")

(***************************************************************************)
(* C25.  For every tag record the contentQuality category earns 0 or 5 of  *)
(* its maxScore 15, so its percentage is 0 or 33 and its status is 'Poor'; *)
(* each of basicSeo, socialMedia and technicalSeo earns exactly its        *)
(* maxScore when all of its rules pass.                                    *)
(***************************************************************************)
\* the number of rules filed under each category
RulesOf(category) ==
    CASE category = "basicSeo" -> 2
      [] category = "socialMedia" -> 2
      [] category = "technicalSeo" -> 3
      [] category = "contentQuality" -> 1

\* every rule of the category left a 'passed' finding
AllPassedIn(data, category) ==
    /\ Len(data.items) = RulesOf(category)
    /\ \A k \in 1..Len(data.items) : data.items[k].type = "passed"

C25_ContentQualityAlwaysPoor ==
    Done =>
        LET cs == result.categoryScores
        IN  /\ cs.contentQuality.maxScore = 15
            /\ cs.contentQuality.score \in {0, 5}
            /\ Percentage(cs.contentQuality) \in {0, 33}
            /\ StatusOf(Percentage(cs.contentQuality)).status = "Poor"
            /\ \A c \in Categories \ {"contentQuality"} :
                   AllPassedIn(cs[c], c) => cs[c].score = cs[c].maxScore

C25_Witness ==
    /\ Done
    /\ AllPassedIn(result.categoryScores.contentQuality, "contentQuality")
    /\ Percentage(result.categoryScores.contentQuality) = 33
    /\ Percentage(result.categoryScores.basicSeo) = 100
    /\ Percentage(result.categoryScores.socialMedia) = 100
    /\ Percentage(result.categoryScores.technicalSeo) = 100

(***************************************************************************)
(* C26.  The two definitions of analyzeSEO agree on their common outputs:  *)
(* for every tag record they return the same score, the same passed,       *)
(* warnings and errors counts and the same sequence of findings (type,     *)
(* title, description).                                                    *)
(***************************************************************************)
C26_VersionsAgree ==
    pc = 2 =>
        LET first == calls[1].report
        IN  /\ first.score = result.score
            /\ first.passed = result.passed
            /\ first.warnings = result.warnings
            /\ first.errors = result.errors
            /\ first.items = result.items

C26_Witness ==
    /\ pc = 2
    /\ metaTags.viewport # ""
    /\ Len(metaTags.title) = 61
    /\ metaTags.description = ""
    /\ calls[1].report.errors = 1
    /\ calls[1].report.score = result.score
    /\ result.score > 0
    /\ result.categoryScores.technicalSeo.score > calls[1].report.score - 8

====
